---- MODULE Spec2Model ----
\* Three state machines over one state: the highlight-segment selection of
\* src/processor/video_trim.py (select_highlight_segments, Spec), its caller
\* trim_video (SpecTrim), and summarize_text of src/processor/summarize.py
\* with the content analysis it runs (SpecSummarize).
\*
\* Text is a sequence of one-character strings, so that strip, split, int()
\* and substring tests are computed the way Python computes them.
\* Time is counted in tenths of a second (0.5 s = 5, 20 s = 200); scores are
\* counted in halves (1.0 = 2, 1.5 = 3, 0.5 = 1).  Every duration that is
\* drawn is a multiple of 0.5 s, for which duration * 0.4 is exact.
\* trim_video counts time in Tick-ths of a tenth of a second.
EXTENDS Integers, Sequences, FiniteSets, TLC

\* ------------------------------------------------------------------ bounds

\* Blocks of a transcript whose headers are drawn freely from Headers.
MaxBlocks == 2
\* Blocks of a transcript written the way the transcript generators write it.
MaxLongBlocks == 8
\* Calls of select_highlight_segments made one after the other.
MaxCalls == 2
\* Blocks of a transcript long enough for a stride above 1 (19 or more).
MaxStrideBlocks == 20
\* Distinct topic words of a text handed to the summarizer; each comes three
\* times, so that n words give the analyzer 2 + 3 + n candidate topics.
MaxTopicWords == 4
\* Distinct names of a text handed to the summarizer.
MaxEntityNames == 8
\* Words of the short texts handed to the summarizer.
MaxSummaryWords == 3
\* Mentions of one name in a text that says two names apart, then a longer
\* name.
MaxMentions == 3

\* --------------------------------------------------------------- constants

LeadIn == 5
AnchorDuration == 200
StrideDuration == 200
TopUpDuration == 150
MaxAnchors == 3
TopUpCount == 3
StrideDivisor == 8
CapDuration == 1800
LengthWords == 20
BaseScore == 2
PositionBonus == 2
KeywordBonus == 3
LengthBonus == 1

\* ------------------------------------------------------------ Python str

Min(a, b) == IF a <= b THEN a ELSE b
Max(a, b) == IF a >= b THEN a ELSE b

NL == "\n"
Whitespace == {" ", NL}
DigitChars == {"0", "1", "2", "3", "4", "5", "6", "7", "8", "9"}

DigitVal(c) ==
    CASE c = "0" -> 0 [] c = "1" -> 1 [] c = "2" -> 2 [] c = "3" -> 3
      [] c = "4" -> 4 [] c = "5" -> 5 [] c = "6" -> 6 [] c = "7" -> 7
      [] c = "8" -> 8 [] c = "9" -> 9

DigitChar(n) ==
    CASE n = 0 -> "0" [] n = 1 -> "1" [] n = 2 -> "2" [] n = 3 -> "3"
      [] n = 4 -> "4" [] n = 5 -> "5" [] n = 6 -> "6" [] n = 7 -> "7"
      [] n = 8 -> "8" [] n = 9 -> "9"

\* str.lower() on one character (ASCII letters).
LowerChar(c) ==
    CASE c = "A" -> "a" [] c = "B" -> "b" [] c = "C" -> "c" [] c = "D" -> "d"
      [] c = "E" -> "e" [] c = "F" -> "f" [] c = "G" -> "g" [] c = "H" -> "h"
      [] c = "I" -> "i" [] c = "J" -> "j" [] c = "K" -> "k" [] c = "L" -> "l"
      [] c = "M" -> "m" [] c = "N" -> "n" [] c = "O" -> "o" [] c = "P" -> "p"
      [] c = "Q" -> "q" [] c = "R" -> "r" [] c = "S" -> "s" [] c = "T" -> "t"
      [] c = "U" -> "u" [] c = "V" -> "v" [] c = "W" -> "w" [] c = "X" -> "x"
      [] c = "Y" -> "y" [] c = "Z" -> "z" [] OTHER -> c

Lower(s) == [i \in 1..Len(s) |-> LowerChar(s[i])]

\* str.strip(): whitespace removed at both ends.
RECURSIVE LStrip(_)
LStrip(s) ==
    IF s # <<>> /\ Head(s) \in Whitespace THEN LStrip(Tail(s)) ELSE s

RECURSIVE RStrip(_)
RStrip(s) ==
    IF s # <<>> /\ s[Len(s)] \in Whitespace
    THEN RStrip(SubSeq(s, 1, Len(s) - 1))
    ELSE s

Strip(s) == RStrip(LStrip(s))

\* The positions at which sep occurs in s.
Occurrences(s, sep) ==
    {i \in 1..(Len(s) - Len(sep) + 1) : SubSeq(s, i, i + Len(sep) - 1) = sep}

\* `sep in s` for a non-empty sep.
Contains(s, sep) == Occurrences(s, sep) # {}

\* s.split(sep): the pieces between the occurrences of sep, left to right.
RECURSIVE Split(_, _)
Split(s, sep) ==
    LET found == Occurrences(s, sep)
    IN  IF found = {}
        THEN <<s>>
        ELSE LET i == CHOOSE j \in found : \A k \in found : j <= k
             IN  <<SubSeq(s, 1, i - 1)>> \o Split(SubSeq(s, i + Len(sep), Len(s)), sep)

\* sep.join(parts)
RECURSIVE Join(_, _)
Join(parts, sep) ==
    IF parts = <<>> THEN <<>>
    ELSE IF Len(parts) = 1 THEN parts[1]
    ELSE parts[1] \o sep \o Join(Tail(parts), sep)

\* The value of a non-empty run of decimal digits.
RECURSIVE DigitsValue(_)
DigitsValue(s) ==
    IF s = <<>> THEN 0
    ELSE 10 * DigitsValue(SubSeq(s, 1, Len(s) - 1)) + DigitVal(s[Len(s)])

\* int(s): surrounding whitespace is dropped, one sign is allowed, and the
\* rest must be a non-empty run of digits; anything else raises ValueError
\* (ok = FALSE).  The texts drawn here hold no '_' and no non-ASCII digit.
IntOf(s) ==
    LET t == Strip(s)
        signed == t # <<>> /\ Head(t) \in {"-", "+"}
        body == IF signed THEN Tail(t) ELSE t
        ok == body # <<>> /\ \A i \in 1..Len(body) : body[i] \in DigitChars
    IN  [ok |-> ok,
         val |-> IF ~ok THEN 0
                 ELSE IF signed /\ Head(t) = "-" THEN 0 - DigitsValue(body)
                 ELSE DigitsValue(body)]

\* len(s.split()): the number of maximal runs of non-whitespace characters.
WordCount(s) ==
    Cardinality({i \in 1..Len(s) :
        /\ s[i] \notin Whitespace
        /\ (i = 1 \/ s[i - 1] \in Whitespace)})

\* f"{n:02d}" for n >= 0.
RECURSIVE Decimal(_)
Decimal(n) ==
    IF n < 10 THEN <<DigitChar(n)>>
    ELSE Decimal(n \div 10) \o <<DigitChar(n % 10)>>

TwoDigits(n) == IF n < 10 THEN <<"0", DigitChar(n)>> ELSE Decimal(n)

\* format_timestamp with the seconds rounded to the nearest, not cut.
format_timestamp_rounded(seconds) ==
    LET minutes == ((seconds + 5) \div 10) \div 60
        remaining_seconds == ((seconds + 5) \div 10) % 60
    IN  TwoDigits(minutes) \o <<":">> \o TwoDigits(remaining_seconds)

\* format_timestamp(seconds), seconds >= 0 given in tenths of a second.
format_timestamp(seconds) ==
    LET minutes == (seconds \div 10) \div 60
        remaining_seconds == (seconds \div 10) % 60
    IN  TwoDigits(minutes) \o <<":">> \o TwoDigits(remaining_seconds)

\* ------------------------------------------------------------ the parser

\* ParsePart with the lead-in taken off whatever the start time is.
ParsePartAlwaysLeadIn(part) ==
    LET lines == Split(part, <<NL>>)
        header == lines[1]
    IN  IF ~Contains(header, <<" ", "-", " ">>) THEN <<>>
        ELSE LET time_part == Split(header, <<" ", "-", " ">>)[1]
             IN  IF ~Contains(time_part, <<":">>) THEN <<>>
                 ELSE LET fields == Split(time_part, <<":">>)
                          minutes == IntOf(fields[1])
                          seconds == IntOf(fields[2])
                          start_time == (minutes.val * 60 + seconds.val) * 10
                      IN  IF Len(fields) # 2 \/ ~minutes.ok \/ ~seconds.ok
                          THEN <<>>
                          ELSE <<[start |-> start_time - LeadIn,
                                  content |-> Join(Tail(lines), <<" ">>)]>>

\* One block of the transcription (lines 159-186): <<segment>> when its
\* header is accepted, <<>> when the block is skipped.
ParsePart(part) ==
    LET lines == Split(part, <<NL>>)
        header == lines[1]
    IN  IF ~Contains(header, <<" ", "-", " ">>) THEN <<>>
        ELSE LET time_part == Split(header, <<" ", "-", " ">>)[1]
             IN  IF ~Contains(time_part, <<":">>) THEN <<>>
                 ELSE LET fields == Split(time_part, <<":">>)
                          minutes == IntOf(fields[1])
                          seconds == IntOf(fields[2])
                          start_time == (minutes.val * 60 + seconds.val) * 10
                      IN  IF Len(fields) # 2 \/ ~minutes.ok \/ ~seconds.ok
                          THEN <<>>
                          ELSE <<[start |-> IF start_time > LeadIn
                                            THEN start_time - LeadIn
                                            ELSE start_time,
                                  content |-> Join(Tail(lines), <<" ">>)]>>

\* ParseParts with a break in place of the pass of line 186: the first
\* block that is skipped ends the loop.
RECURSIVE ParsePartsBreak(_)
ParsePartsBreak(transcript_parts) ==
    IF transcript_parts = <<>> THEN <<>>
    ELSE IF ParsePart(Head(transcript_parts)) = <<>> THEN <<>>
    ELSE ParsePart(Head(transcript_parts)) \o ParsePartsBreak(Tail(transcript_parts))

\* The loop of lines 158-186 over the blocks, in input order.
RECURSIVE ParseParts(_)
ParseParts(transcript_parts) ==
    IF transcript_parts = <<>> THEN <<>>
    ELSE ParsePart(Head(transcript_parts)) \o ParseParts(Tail(transcript_parts))

\* Lines 154-186: the segments parsed from the text of a transcription.
ParseTranscription(text) == ParseParts(Split(Strip(text), <<NL, NL>>))

\* ------------------------------------------------------------ the scorer

important_keywords ==
    << <<"i", "m", "p", "o", "r", "t", "a", "n", "t">>,
       <<"k", "e", "y">>,
       <<"e", "s", "s", "e", "n", "t", "i", "a", "l">>,
       <<"c", "r", "i", "t", "i", "c", "a", "l">>,
       <<"m", "a", "i", "n">>,
       <<"s", "i", "g", "n", "i", "f", "i", "c", "a", "n", "t">>,
       <<"h", "i", "g", "h", "l", "i", "g", "h", "t">>,
       <<"c", "r", "u", "c", "i", "a", "l">>,
       <<"v", "i", "t", "a", "l">>,
       <<"p", "r", "i", "m", "a", "r", "y">>,
       <<"c", "e", "n", "t", "r", "a", "l">>,
       <<"c", "o", "r", "e">>,
       <<"d", "e", "m", "o">>,
       <<"e", "x", "a", "m", "p", "l", "e">>,
       <<"f", "e", "a", "t", "u", "r", "e">>,
       <<"b", "e", "n", "e", "f", "i", "t">>,
       <<"r", "e", "s", "u", "l", "t">>,
       <<"o", "u", "t", "c", "o", "m", "e">>,
       <<"s", "o", "l", "u", "t", "i", "o", "n">>,
       <<"p", "r", "o", "b", "l", "e", "m">>,
       <<"c", "h", "a", "l", "l", "e", "n", "g", "e">>,
       <<"c", "o", "n", "c", "l", "u", "s", "i", "o", "n">>,
       <<"i", "n", "t", "r", "o", "d", "u", "c", "t", "i", "o", "n">>,
       <<"s", "u", "m", "m", "a", "r", "y">>,
       <<"o", "v", "e", "r", "v", "i", "e", "w">>,
       <<"t", "u", "t", "o", "r", "i", "a", "l">>,
       <<"g", "u", "i", "d", "e">>,
       <<"w", "a", "l", "k", "t", "h", "r", "o", "u", "g", "h">>,
       <<"h", "o", "w", " ", "t", "o">>,
       <<"s", "t", "e", "p", "s">>,
       <<"p", "r", "o", "c", "e", "s", "s">>,
       <<"m", "e", "t", "h", "o", "d">>,
       <<"t", "e", "c", "h", "n", "i", "q", "u", "e">> >>

\* any(keyword in content for keyword in important_keywords), line 215.
HasKeyword(content) ==
    \E k \in 1..Len(important_keywords) : Contains(content, important_keywords[k])

\* position_ratio < 0.15 or position_ratio > 0.85 with
\* position_ratio = i / max(1, n), lines 210-211.
AtEdge(i, n) == 100 * i < 15 * Max(1, n) \/ 100 * i > 85 * Max(1, n)

\* SegmentScore with the length bonus given from 20 words on.
SegmentScoreFromTwentyWords(i, n, text) ==
    LET content == Lower(text)
    IN  BaseScore
        + (IF AtEdge(i, n) THEN PositionBonus ELSE 0)
        + (IF HasKeyword(content) THEN KeywordBonus ELSE 0)
        + (IF WordCount(content) >= LengthWords THEN LengthBonus ELSE 0)

\* The score of the segment at index i (from 0) of n, lines 204-221.
SegmentScore(i, n, text) ==
    LET content == Lower(text)
    IN  BaseScore
        + (IF AtEdge(i, n) THEN PositionBonus ELSE 0)
        + (IF HasKeyword(content) THEN KeywordBonus ELSE 0)
        + (IF WordCount(content) > LengthWords THEN LengthBonus ELSE 0)

\* The loop of lines 203-227.
ScoreSegments(segs) ==
    [j \in 1..Len(segs) |->
        [start |-> segs[j].start,
         content |-> segs[j].content,
         score |-> SegmentScore(j - 1, Len(segs), segs[j].content)]]

\* InsertByScore with ties going to the later element.
InsertByScoreLaterWins(sorted, x) ==
    LET p == Cardinality({j \in 1..Len(sorted) : sorted[j].score > x.score})
    IN  SubSeq(sorted, 1, p) \o <<x>> \o SubSeq(sorted, p + 1, Len(sorted))

\* InsertByScore without reverse=True: lowest score first.
InsertByScoreAscending(sorted, x) ==
    LET p == Cardinality({j \in 1..Len(sorted) : sorted[j].score <= x.score})
    IN  SubSeq(sorted, 1, p) \o <<x>> \o SubSeq(sorted, p + 1, Len(sorted))

\* list.sort is stable: an element goes after those it does not beat.
InsertByScore(sorted, x) ==
    LET p == Cardinality({j \in 1..Len(sorted) : sorted[j].score >= x.score})
    IN  SubSeq(sorted, 1, p) \o <<x>> \o SubSeq(sorted, p + 1, Len(sorted))

\* scored_segments.sort(key=score, reverse=True), line 230.
RECURSIVE SortByScore(_)
SortByScore(segs) ==
    IF segs = <<>> THEN <<>>
    ELSE InsertByScore(SortByScore(SubSeq(segs, 1, Len(segs) - 1)), segs[Len(segs)])

InsertByStart(sorted, x) ==
    LET p == Cardinality({j \in 1..Len(sorted) : sorted[j].start <= x.start})
    IN  SubSeq(sorted, 1, p) \o <<x>> \o SubSeq(sorted, p + 1, Len(sorted))

\* remaining_segments.sort(key=start), line 255.
RECURSIVE SortByStart(_)
SortByStart(segs) ==
    IF segs = <<>> THEN <<>>
    ELSE InsertByStart(SortByStart(SubSeq(segs, 1, Len(segs) - 1)), segs[Len(segs)])

\* TargetDuration without the cap of 180 s.
TargetDurationUncapped(d) == (d * 4) \div 10

\* target_duration = min(duration * 0.4, 180), line 233.
TargetDuration(d) == Min((d * 4) \div 10, CapDuration)

\* A clip of the plan, lines 245-248, 269-272, 284-287.
Clip(segment, segment_duration) ==
    [start |-> segment.start, duration |-> segment_duration]

\* The loop of lines 240-249 over the top segments.
AnchorClips(scored) ==
    [j \in 1..Min(MaxAnchors, Len(scored)) |-> Clip(scored[j], AnchorDuration)]

\* TopUpClips without the min(3, ...) of line 277.
TopUpClipsUnbounded(remaining) ==
    [j \in 1..Len(remaining) |->
        Clip(remaining[((Len(remaining) \div 2 + (j - 1)) % Len(remaining)) + 1],
             TopUpDuration)]

\* The loop of lines 277-288: additional_segments clips from the middle on.
TopUpClips(remaining) ==
    [j \in 1..Min(TopUpCount, Len(remaining)) |->
        Clip(remaining[((Len(remaining) \div 2 + (j - 1)) % Len(remaining)) + 1],
             TopUpDuration)]

\* ------------------------------------------------------------ the inputs

HdrZero == <<"0", "0", ":", "0", "0", " ", "-", " ", "A", ":">>
HdrTen == <<"0", "0", ":", "1", "0", " ", "-", " ", "A", ":">>
HdrMinute == <<"0", "1", ":", "0", "0", " ", "-", " ", "B", ":">>
HdrTimeOnly == <<"0", "0", ":", "3", "0">>
HdrNegative == <<"-", "1", ":", "0", "0", " ", "-", " ", "A", ":">>
HdrThreeFields == <<"1", ":", "2", ":", "3", " ", "-", " ", "A", ":">>
HdrNotInteger == <<"a", "b", ":", "1", "0", " ", "-", " ", "A", ":">>
HdrFloat == <<"1", "2", ".", "5", " ", "-", " ", "A", ":">>
HdrEmpty == <<>>

Headers ==
    {HdrZero, HdrTen, HdrMinute, HdrTimeOnly, HdrNegative, HdrThreeFields,
     HdrNotInteger, HdrFloat, HdrEmpty}

BodyPlain == <<"o", "k">>
BodyKeyword == <<"K", "e", "y">>
BodyLong ==
    <<"a", " ", "a", " ", "a", " ", "a", " ", "a", " ", "a", " ", "a", " ",
      "a", " ", "a", " ", "a", " ", "a", " ", "a", " ", "a", " ", "a", " ",
      "a", " ", "a", " ", "a", " ", "a", " ", "a", " ", "a", " ", "a">>
\* BodyLong less its first word: 20 words.
BodyTwenty == SubSeq(BodyLong, 3, Len(BodyLong))
ExIntro ==
    <<"T", "h", "i", "s", " ", "i", "s", " ", "t", "h", "e", " ", "i", "m",
      "p", "o", "r", "t", "a", "n", "t", " ", "i", "n", "t", "r", "o", "d",
      "u", "c", "t", "i", "o", "n", ".">>
ExFiller ==
    <<"J", "u", "s", "t", " ", "a", " ", "f", "i", "l", "l", "e", "r", " ",
      "r", "e", "m", "a", "r", "k", " ", "h", "e", "r", "e", ".">>

Bodies == {BodyPlain, BodyKeyword}

\* A block: its header line, a newline, its body.
Block(header, body) == header \o <<NL>> \o body

Blocks == {Block(h, b) : h \in Headers, b \in Bodies}

\* Transcripts of up to MaxBlocks blocks with any header of Headers.
ShortTranscripts ==
    {Join(bs, <<NL, NL>>) : bs \in UNION {[1..n -> Blocks] : n \in 0..MaxBlocks}}

\* Transcripts as transcribe.py writes them: block i is headed
\* format_timestamp(t_i) + " - " + speaker + ":" and ends with a blank line;
\* here the blocks are 30 s apart.
LongBlock(i, body) ==
    Block(format_timestamp(i * 300) \o <<" ", "-", " ", "A", ":">>, body)
     \o <<NL, NL>>

RECURSIVE Concat(_)
Concat(parts) == IF parts = <<>> THEN <<>> ELSE Head(parts) \o Concat(Tail(parts))

LongTranscripts ==
    {Concat([i \in 1..Len(bs) |-> LongBlock(i - 1, bs[i])]) :
        bs \in UNION {[1..n -> Bodies] : n \in (MaxBlocks + 1)..MaxLongBlocks}}

\* Generated transcripts of 19 to MaxStrideBlocks blocks, of which at most
\* one (the k-th, none for k = 0) holds a keyword.
StrideTranscripts ==
    {Concat([i \in 1..n |->
                LongBlock(i - 1, IF i = k THEN BodyKeyword ELSE BodyPlain)]) :
        n \in 19..MaxStrideBlocks, k \in 0..MaxStrideBlocks}

\* The speakers of the generated transcripts (transcribe.py, lines 314-329
\* and 595).
SpeakerOne == <<"S", "p", "e", "a", "k", "e", "r", " ", "1">>
SpeakerTwo == <<"S", "p", "e", "a", "k", "e", "r", " ", "2">>
Presenter == <<"P", "r", "e", "s", "e", "n", "t", "e", "r">>
ContentCreator ==
    <<"C", "o", "n", "t", "e", "n", "t", " ", "C", "r", "e", "a", "t", "o", "r">>

\* Lines 142-143 and 629-630 of transcribe.py: the block of a segment that
\* starts at t, given in tenths of a second.  The body is one line; its
\* wording is not modelled.
GeneratedBlock(t, speaker) ==
    Block(format_timestamp(t) \o <<" ", "-", " ">> \o speaker \o <<":">>, BodyPlain)
     \o <<NL, NL>>

\* Lines 591 and 599 of transcribe.py (and 404-408, 494-498): the starts
\* of max(5, int(duration / 20)) segments of equal length.  The division is
\* exact for the durations drawn.
EvenStarts(d) ==
    LET num_segments == Max(5, d \div 200)
    IN  [k \in 1..num_segments |-> (k - 1) * (d \div num_segments)]

\* simulate_transcript(duration, input_video_path), lines 591-632: two
\* speakers take turns when there are more than 8 segments.
simulate_transcript(d) ==
    LET starts == EvenStarts(d)
        speakers == IF Len(starts) > 8 THEN <<SpeakerOne, SpeakerTwo>>
                    ELSE <<SpeakerOne>>
    IN  Concat([k \in 1..Len(starts) |->
                   GeneratedBlock(starts[k], speakers[((k - 1) % Len(speakers)) + 1])])

\* analyze_audio_patterns, lines 450-486 of transcribe.py, from segment i
\* on: the starts of the segments found in an audio track.  A segment is at
\* least 3 s long and the loop ends with the segment that reaches the end of
\* the track.  The length of the segments after the first 80% bears on the
\* start of the last segment at most, for 10 segments or fewer.
RECURSIVE AudioStarts(_, _, _)
AudioStarts(audio_duration, k, last_end) ==
    LET segment_count == Max(6, audio_duration \div 150)
        even == IF 10 * k < 2 * segment_count
                THEN (audio_duration * 10) \div (segment_count * 15)
                ELSE IF 10 * k > 8 * segment_count
                THEN (audio_duration * 10) \div (segment_count * 13)
                ELSE audio_duration \div segment_count
        segment_len == Max(30, even + ((k % 3) - 1) * 20)
        end_time == Min(audio_duration, last_end + segment_len)
    IN  IF k >= segment_count THEN <<>>
        ELSE <<last_end>>
             \o (IF end_time >= audio_duration THEN <<>>
                 ELSE AudioStarts(audio_duration, k + 1, end_time))

\* generate_advanced_transcript, lines 101-145 of transcribe.py, for up to
\* 20 segments: determine_speakers gives one speaker, who heads every block.
generate_advanced_transcript(starts, speaker) ==
    Concat([k \in 1..Len(starts) |-> GeneratedBlock(starts[k], speaker)])

\* The durations handed to the generators, in tenths of a second: videos of
\* 7 s, 10 s, 120 s and 180 s, audio tracks of 2 s, 13.2 s and 81 s.
VideoDurations == {70, 100, 1200, 1800}
AudioDurations == {20, 132, 810}

\* What the generators make: the starts of the segments and the text.
GeneratedCases ==
    {[starts |-> EvenStarts(d), text |-> simulate_transcript(d)] :
        d \in VideoDurations}
    \cup {[starts |-> st, text |-> generate_advanced_transcript(st, sp)] :
            st \in {AudioStarts(ad, 0, 0) : ad \in AudioDurations}
                   \cup {EvenStarts(d) : d \in VideoDurations},
            sp \in {SpeakerOne, Presenter, ContentCreator}}

GeneratedTranscripts == {g.text : g \in GeneratedCases}

\* The example of the specification, a block without a body, a block with a
\* body of 21 words, one with a body of 20 words, and a block after two
\* blank lines.
ExampleTranscripts ==
    {Block(HdrZero, ExIntro) \o <<NL, NL>> \o Block(HdrMinute, ExFiller),
     HdrTen,
     Block(HdrTen, BodyLong),
     Block(HdrTen, BodyTwenty),
     Block(HdrTen, BodyPlain) \o <<NL, NL, NL>> \o Block(HdrMinute, BodyPlain)}

\* The transcription argument: a str, or an object that is no str (None).
NoTranscription == [isStr |-> FALSE, text |-> <<>>]
TranscriptionInputs ==
    {[isStr |-> TRUE, text |-> t] :
        t \in ShortTranscripts \cup LongTranscripts \cup StrideTranscripts
              \cup GeneratedTranscripts \cup ExampleTranscripts}
    \cup {NoTranscription}

\* The duration argument: a number of tenths of a second (-10 s, 0 s, 10 s,
\* 120 s, 300 s, 600 s), or an object that cannot be multiplied (None).
NoDuration == [isNumber |-> FALSE, value |-> 0]
DurationInputs ==
    {[isNumber |-> TRUE, value |-> v] : v \in {0 - 100, 0, 100, 1200, 3000, 6000}}
    \cup {NoDuration}

\* ------------------------------------------------------------- the state

VARIABLES
    transcription,       \* argument
    duration,            \* argument
    pc,                  \* position in select_highlight_segments
    timestamp_segments,  \* local, line 157
    scored_segments,     \* local, lines 191, 230
    target_duration,     \* local, line 233
    current_duration,    \* local, line 236
    selected_segments,   \* local, line 237
    remaining_segments,  \* local, lines 252, 255
    step,                \* local, line 259
    i,                   \* loop variable of line 260
    exception,           \* the exception in flight, "none" when there is none
    stderr,              \* what the handlers have printed
    returns,             \* the values returned by the calls made so far
    input_video,         \* trim_video: what ffprobe finds at input_video_path
    tpc,                 \* position in trim_video, "idle" outside of it
    video_duration,      \* trim_video local, lines 17, 31
    segments,            \* trim_video local, lines 34, 43
    index,               \* trim_video: i of the loop of line 67
    segment_files,       \* trim_video local, line 64: the spans extracted
    temp_dir,            \* trim_video: the directory of line 63 on disk
    output,              \* trim_video: what was written at output_path
    spc,                 \* position in summarize_text, "idle" outside of it
    raw_segments,        \* summarize_text local segments, line 16
    transcript_data,     \* summarize_text local, line 19
    summary              \* summarize_text local, line 22

vars ==
    <<transcription, duration, pc, timestamp_segments, scored_segments,
      target_duration, current_duration, selected_segments,
      remaining_segments, step, i, exception, stderr, returns,
      input_video, tpc, video_duration, segments, index, segment_files,
      temp_dir, output, spc, raw_segments, transcript_data, summary>>

\* The state of trim_video and the state of summarize_text.
trimVars ==
    <<input_video, tpc, video_duration, segments, index, segment_files,
      temp_dir, output>>
summarizeVars == <<spc, raw_segments, transcript_data, summary>>

args == <<transcription, duration>>
locals ==
    <<timestamp_segments, scored_segments, target_duration, current_duration,
      selected_segments, remaining_segments, step, i>>

\* trim_video is not running.
TrimIdle ==
    /\ input_video = [readable |-> FALSE, duration |-> 0]
    /\ tpc = "idle"
    /\ video_duration = 0
    /\ segments = <<>>
    /\ index = 0
    /\ segment_files = <<>>
    /\ temp_dir = "none"
    /\ output = [kind |-> "none", duration |-> 0]

\* summarize_text is not running.
SummarizeIdle ==
    /\ spc = "idle"
    /\ raw_segments = <<>>
    /\ transcript_data = [texts |-> <<>>, speakers |-> {}, topics |-> <<>>,
                          entities |-> <<>>]
    /\ summary = [isStr |-> FALSE]

\* No local of select_highlight_segments is bound yet.
LocalsUnbound ==
    /\ timestamp_segments = <<>>
    /\ scored_segments = <<>>
    /\ target_duration = 0
    /\ current_duration = 0
    /\ selected_segments = <<>>
    /\ remaining_segments = <<>>
    /\ step = 0
    /\ i = 0
    /\ exception = "none"
    /\ stderr = <<>>
    /\ returns = <<>>

\* The first call is entered; no local is bound yet.
Init ==
    /\ transcription \in TranscriptionInputs
    /\ duration \in DurationInputs
    /\ pc = "parse"
    /\ LocalsUnbound
    /\ TrimIdle
    /\ SummarizeIdle

\* Lines 152-189: split the transcription into blocks and parse each; a
\* transcription without strip() raises, no parsed segment falls through
\* to line 297.
Parse ==
    /\ pc = "parse"
    /\ IF ~transcription.isStr
       THEN /\ exception' = "AttributeError"
            /\ pc' = "except"
            /\ UNCHANGED timestamp_segments
       ELSE /\ timestamp_segments' = ParseTranscription(transcription.text)
            /\ pc' = IF timestamp_segments' # <<>> THEN "score" ELSE "fallthrough"
            /\ UNCHANGED exception
    /\ UNCHANGED <<trimVars, summarizeVars, args, scored_segments, target_duration, current_duration,
                   selected_segments, remaining_segments, step, i, stderr, returns>>

\* Lines 190-230: score every segment, then sort by score, best first.
Score ==
    /\ pc = "score"
    /\ scored_segments' = SortByScore(ScoreSegments(timestamp_segments))
    /\ pc' = "target"
    /\ UNCHANGED <<trimVars, summarizeVars, args, timestamp_segments, target_duration, current_duration,
                   selected_segments, remaining_segments, step, i, exception,
                   stderr, returns>>

\* Target with current_duration and selected_segments kept in module-level
\* variables that are bound once and never bound again.
TargetKeepsPlan ==
    /\ pc = "target"
    /\ IF ~duration.isNumber
       THEN /\ exception' = "TypeError"
            /\ pc' = "except"
            /\ UNCHANGED <<target_duration, current_duration, selected_segments>>
       ELSE /\ target_duration' = TargetDuration(duration.value)
            /\ pc' = "anchors"
            /\ UNCHANGED <<current_duration, selected_segments, exception>>
    /\ UNCHANGED <<trimVars, summarizeVars, args, timestamp_segments, scored_segments,
                   remaining_segments, step, i, stderr, returns>>

\* Lines 233-237: the target; a duration that cannot be multiplied raises.
Target ==
    /\ pc = "target"
    /\ IF ~duration.isNumber
       THEN /\ exception' = "TypeError"
            /\ pc' = "except"
            /\ UNCHANGED <<target_duration, current_duration, selected_segments>>
       ELSE /\ target_duration' = TargetDuration(duration.value)
            /\ current_duration' = 0
            /\ selected_segments' = <<>>
            /\ pc' = "anchors"
            /\ UNCHANGED exception
    /\ UNCHANGED <<trimVars, summarizeVars, args, timestamp_segments, scored_segments,
                   remaining_segments, step, i, stderr, returns>>

\* Anchors with a stride of 1 whatever the number of segments left.
AnchorsUnitStride ==
    /\ pc = "anchors"
    /\ LET top_segments == SubSeq(scored_segments, 1, Min(MaxAnchors, Len(scored_segments)))
           rest == SubSeq(scored_segments, Len(top_segments) + 1, Len(scored_segments))
       IN  /\ selected_segments' = selected_segments \o AnchorClips(scored_segments)
           /\ current_duration' = current_duration + AnchorDuration * Len(top_segments)
           /\ remaining_segments' = SortByStart(rest)
           /\ step' = 1
    /\ i' = 0
    /\ pc' = "stride"
    /\ UNCHANGED <<trimVars, summarizeVars, args, timestamp_segments, scored_segments, target_duration,
                   exception, stderr, returns>>

\* Lines 240-259: a clip for each top segment, whatever the target; the
\* other segments are put in order of start and the stride is fixed.
Anchors ==
    /\ pc = "anchors"
    /\ LET top_segments == SubSeq(scored_segments, 1, Min(MaxAnchors, Len(scored_segments)))
           rest == SubSeq(scored_segments, Len(top_segments) + 1, Len(scored_segments))
       IN  /\ selected_segments' = selected_segments \o AnchorClips(scored_segments)
           /\ current_duration' = current_duration + AnchorDuration * Len(top_segments)
           /\ remaining_segments' = SortByStart(rest)
           /\ step' = Max(1, Len(rest) \div StrideDivisor)
    /\ i' = 0
    /\ pc' = "stride"
    /\ UNCHANGED <<trimVars, summarizeVars, args, timestamp_segments, scored_segments, target_duration,
                   exception, stderr, returns>>

\* StrideStep without the test of line 261.
StrideStepNoBreak ==
    /\ pc = "stride"
    /\ i < Len(remaining_segments)
    /\ selected_segments' =
           Append(selected_segments, Clip(remaining_segments[i + 1], StrideDuration))
    /\ current_duration' = current_duration + StrideDuration
    /\ i' = i + step
    /\ UNCHANGED <<trimVars, summarizeVars, args, pc, timestamp_segments, scored_segments, target_duration,
                   remaining_segments, step, exception, stderr, returns>>

\* Lines 260-273: one pass of the loop that does not break.
StrideStep ==
    /\ pc = "stride"
    /\ i < Len(remaining_segments)
    /\ current_duration < target_duration
    /\ selected_segments' =
           Append(selected_segments, Clip(remaining_segments[i + 1], StrideDuration))
    /\ current_duration' = current_duration + StrideDuration
    /\ i' = i + step
    /\ UNCHANGED <<trimVars, summarizeVars, args, pc, timestamp_segments, scored_segments, target_duration,
                   remaining_segments, step, exception, stderr, returns>>

\* Lines 260-262: the range is exhausted, or the break is taken.
StrideExit ==
    /\ pc = "stride"
    /\ (i >= Len(remaining_segments) \/ current_duration >= target_duration)
    /\ pc' = "topup"
    /\ UNCHANGED <<trimVars, summarizeVars, args, locals, exception, stderr, returns>>

\* TopUp without the test of current_duration against the target.
TopUpAlways ==
    /\ pc = "topup"
    /\ IF Len(remaining_segments) > 0
       THEN /\ selected_segments' = selected_segments \o TopUpClips(remaining_segments)
            /\ current_duration' =
                   current_duration + TopUpDuration * Len(TopUpClips(remaining_segments))
       ELSE UNCHANGED <<selected_segments, current_duration>>
    /\ pc' = "return"
    /\ UNCHANGED <<trimVars, summarizeVars, args, timestamp_segments, scored_segments, target_duration,
                   remaining_segments, step, i, exception, stderr, returns>>

\* Lines 276-288: the clips added when the target is still not reached.
TopUp ==
    /\ pc = "topup"
    /\ IF current_duration < target_duration /\ Len(remaining_segments) > 0
       THEN /\ selected_segments' = selected_segments \o TopUpClips(remaining_segments)
            /\ current_duration' =
                   current_duration + TopUpDuration * Len(TopUpClips(remaining_segments))
       ELSE UNCHANGED <<selected_segments, current_duration>>
    /\ pc' = "return"
    /\ UNCHANGED <<trimVars, summarizeVars, args, timestamp_segments, scored_segments, target_duration,
                   remaining_segments, step, i, exception, stderr, returns>>

\* Line 290: return selected_segments.
Return ==
    /\ pc = "return"
    /\ returns' = Append(returns, selected_segments)
    /\ pc' = "done"
    /\ UNCHANGED <<trimVars, summarizeVars, args, locals, exception, stderr>>

\* Except with a raise at the end of the handler: the exception leaves the
\* function.
ExceptReraises ==
    /\ pc = "except"
    /\ stderr' = Append(stderr, exception)
    /\ pc' = "raised"
    /\ UNCHANGED <<trimVars, summarizeVars, args, locals, exception, returns>>

\* Lines 292-293: the handler prints the exception and falls through.
Except ==
    /\ pc = "except"
    /\ stderr' = Append(stderr, exception)
    /\ exception' = "none"
    /\ pc' = "fallthrough"
    /\ UNCHANGED <<trimVars, summarizeVars, args, locals, returns>>

\* ReturnEmpty with the selector supplying a default clip itself.
ReturnDefaultClip ==
    /\ pc = "fallthrough"
    /\ returns' = Append(returns, <<[start |-> 0, duration |-> AnchorDuration]>>)
    /\ pc' = "done"
    /\ UNCHANGED <<trimVars, summarizeVars, args, locals, exception, stderr>>

\* Line 297: return [].
ReturnEmpty ==
    /\ pc = "fallthrough"
    /\ returns' = Append(returns, <<>>)
    /\ pc' = "done"
    /\ UNCHANGED <<trimVars, summarizeVars, args, locals, exception, stderr>>

\* The caller calls again with the same arguments (line 145).  A new call
\* binds its locals itself: what the last call left in them is not cleared
\* here.
Call ==
    /\ pc = "done"
    /\ Len(returns) < MaxCalls
    /\ pc' = "parse"
    /\ UNCHANGED <<trimVars, summarizeVars, args, locals, exception, stderr, returns>>

Next ==
    \/ Parse
    \/ Score
    \/ Target
    \/ Anchors
    \/ StrideStep
    \/ StrideExit
    \/ TopUp
    \/ Return
    \/ Except
    \/ ReturnEmpty
    \/ Call

Spec == Init /\ [][Next]_vars

\* ------------------------------------------------------------- trim_video

\* trim_video's times are counted in parts of a tenth of a second, so that
\* the divisions of lines 41, 52 and 54 (by 20, by segment_count - 1 = 4..9
\* and by 2) are exact for the durations drawn, all multiples of 0.5 s.
Tick == 504
Seconds(n) == n * 10 * Tick

\* A plan of the selector, in the unit of trim_video.
ToTicks(plan) ==
    [k \in 1..Len(plan) |->
        [start |-> plan[k].start * Tick, duration |-> plan[k].duration * Tick]]

\* The plan the specification describes: three anchors of a tenth of the
\* video at the head, in the middle and at the tail.
ThreeAnchorFallback(d) ==
    LET segment_duration == d \div 10
    IN  <<[start |-> 0, duration |-> segment_duration],
          [start |-> d \div 2 - segment_duration \div 2, duration |-> segment_duration],
          [start |-> d - segment_duration, duration |-> segment_duration]>>

\* Lines 40-60: the default segments made when the selector gives none.
FallbackPlan(d) ==
    LET segment_count == Max(5, Min(10, d \div Seconds(30)))
        segment_duration == Min(Seconds(25), (d * 15) \div 100)
        half_second == Seconds(1) \div 2
    IN  <<[start |-> 0, duration |-> segment_duration]>>
        \o [k \in 1..(segment_count - 2) |->
               [start |-> Max(half_second,
                              (d * k) \div (segment_count - 1) - segment_duration \div 2),
                duration |-> segment_duration]]
        \o <<[start |-> Max(half_second, d - segment_duration),
              duration |-> segment_duration]>>

\* What ffprobe reports for the input: a duration (10 s, 120 s, 300 s,
\* 600 s), or nothing that json.loads can read.
VideoInputs ==
    {[readable |-> TRUE, duration |-> Seconds(s)] : s \in {10, 120, 300, 600}}
    \cup {[readable |-> FALSE, duration |-> 0]}

\* The transcriptions handed to trim_video.
TrimTranscriptions ==
    {[isStr |-> TRUE, text |-> t] :
        t \in ShortTranscripts \cup LongTranscripts \cup ExampleTranscripts}
    \cup {NoTranscription}

\* trim_video is entered (line 17); the selector is not running.
InitTrim ==
    /\ transcription \in TrimTranscriptions
    /\ duration = NoDuration
    /\ pc = "idle"
    /\ LocalsUnbound
    /\ input_video \in VideoInputs
    /\ tpc = "probe"
    /\ video_duration = 0
    /\ segments = <<>>
    /\ index = 0
    /\ segment_files = <<>>
    /\ temp_dir = "none"
    /\ output = [kind |-> "none", duration |-> 0]
    /\ SummarizeIdle

\* Lines 20-31: ffprobe and json.loads; an output without a duration raises.
Probe ==
    /\ tpc = "probe"
    /\ IF input_video.readable
       THEN /\ video_duration' = input_video.duration
            /\ tpc' = "select"
            /\ UNCHANGED exception
       ELSE /\ exception' = "JSONDecodeError"
            /\ tpc' = "except"
            /\ UNCHANGED video_duration
    /\ UNCHANGED <<summarizeVars, transcription, duration, pc, locals, stderr,
                   returns, input_video, segments, index, segment_files,
                   temp_dir, output>>

\* Line 34: select_highlight_segments(video_duration, transcription) is
\* entered.
SelectCall ==
    /\ tpc = "select"
    /\ pc = "idle"
    /\ duration' = [isNumber |-> TRUE, value |-> video_duration \div Tick]
    /\ pc' = "parse"
    /\ tpc' = "selecting"
    /\ UNCHANGED <<summarizeVars, transcription, locals, exception, stderr,
                   returns, input_video, video_duration, segments, index,
                   segment_files, temp_dir, output>>

\* Lines 34-60: the selector's plan, or the default segments when it is
\* empty.
PlanOrFallback ==
    /\ tpc = "selecting"
    /\ pc = "done"
    /\ segments' = IF returns[Len(returns)] # <<>>
                   THEN ToTicks(returns[Len(returns)])
                   ELSE FallbackPlan(video_duration)
    /\ pc' = "idle"
    /\ tpc' = "mkdtemp"
    /\ UNCHANGED <<summarizeVars, args, locals, exception, stderr, returns,
                   input_video, video_duration, index, segment_files,
                   temp_dir, output>>

\* Lines 63-64.
MakeTempDir ==
    /\ tpc = "mkdtemp"
    /\ temp_dir' = "exists"
    /\ segment_files' = <<>>
    /\ index' = 0
    /\ tpc' = "extract"
    /\ UNCHANGED <<summarizeVars, args, pc, locals, exception, stderr, returns,
                   input_video, video_duration, segments, output>>

\* Span without the min of line 69: the duration of the plan as it is.
SpanUnclamped(segment) ==
    [start |-> Max(0, segment.start), duration |-> segment.duration]

\* Lines 68-69: the span of the segment at index, clamped.
Span(segment) ==
    LET start == Max(0, segment.start)
    IN  [start |-> start,
         duration |-> Min(segment.duration, video_duration - start)]

\* Line 72: too short, or out of bounds.
Skipped(span) == span.duration < Seconds(1) \/ span.start >= video_duration

\* Lines 67-73: a segment that is skipped.
ExtractSkip ==
    /\ tpc = "extract"
    /\ index < Len(segments)
    /\ Skipped(Span(segments[index + 1]))
    /\ index' = index + 1
    /\ UNCHANGED <<summarizeVars, args, pc, locals, exception, stderr, returns,
                   input_video, tpc, video_duration, segments, segment_files,
                   temp_dir, output>>

\* Lines 67-87: a segment that ffmpeg extracts.
Extract ==
    /\ tpc = "extract"
    /\ index < Len(segments)
    /\ ~Skipped(Span(segments[index + 1]))
    /\ segment_files' = Append(segment_files, Span(segments[index + 1]))
    /\ index' = index + 1
    /\ UNCHANGED <<summarizeVars, args, pc, locals, exception, stderr, returns,
                   input_video, tpc, video_duration, segments, temp_dir, output>>

\* Lines 67-87 when ffmpeg fails: check=True raises CalledProcessError; the
\* file's name is already in segment_files (line 76).
ExtractFails ==
    /\ tpc = "extract"
    /\ index < Len(segments)
    /\ ~Skipped(Span(segments[index + 1]))
    /\ segment_files' = Append(segment_files, Span(segments[index + 1]))
    /\ exception' = "CalledProcessError"
    /\ tpc' = "except"
    /\ UNCHANGED <<summarizeVars, args, pc, locals, stderr, returns,
                   input_video, video_duration, segments, index, temp_dir, output>>

\* The loop of line 67 ends; line 90 tests segment_files.
ExtractEnd ==
    /\ tpc = "extract"
    /\ index = Len(segments)
    /\ tpc' = IF segment_files = <<>> THEN "default" ELSE "concat"
    /\ UNCHANGED <<summarizeVars, args, pc, locals, exception, stderr, returns,
                   input_video, video_duration, segments, index, segment_files,
                   temp_dir, output>>

\* Lines 90-100: nothing was extracted; the first min(60, video_duration)
\* seconds are copied and trim_video returns.
CopyDefault ==
    /\ tpc = "default"
    /\ output' = [kind |-> "default", duration |-> Min(Seconds(60), video_duration)]
    /\ tpc' = "returned"
    /\ UNCHANGED <<summarizeVars, args, pc, locals, exception, stderr, returns,
                   input_video, video_duration, segments, index, segment_files,
                   temp_dir>>

\* Lines 91-99 when ffmpeg fails.
CopyDefaultFails ==
    /\ tpc = "default"
    /\ exception' = "CalledProcessError"
    /\ tpc' = "except"
    /\ UNCHANGED <<summarizeVars, args, pc, locals, stderr, returns,
                   input_video, video_duration, segments, index, segment_files,
                   temp_dir, output>>

\* Lines 102-117: the list file is written and the segments are joined.
Concatenate ==
    /\ tpc = "concat"
    /\ output' = [kind |-> "concat", duration |-> 0]
    /\ tpc' = "cleanup"
    /\ UNCHANGED <<summarizeVars, args, pc, locals, exception, stderr, returns,
                   input_video, video_duration, segments, index, segment_files,
                   temp_dir>>

\* Lines 109-117 when ffmpeg fails.
ConcatenateFails ==
    /\ tpc = "concat"
    /\ exception' = "CalledProcessError"
    /\ tpc' = "except"
    /\ UNCHANGED <<summarizeVars, args, pc, locals, stderr, returns,
                   input_video, video_duration, segments, index, segment_files,
                   temp_dir, output>>

\* Lines 119-125: the files and the directory are removed.
Cleanup ==
    /\ tpc = "cleanup"
    /\ temp_dir' = "removed"
    /\ tpc' = "returned"
    /\ UNCHANGED <<summarizeVars, args, pc, locals, exception, stderr, returns,
                   input_video, video_duration, segments, index, segment_files,
                   output>>

\* Lines 127-141: the handler prints and copies a portion of the original;
\* this run of ffmpeg is not checked.
ExceptCopy ==
    /\ tpc = "except"
    /\ stderr' = Append(stderr, exception)
    /\ exception' = "none"
    /\ output' = [kind |-> "fallback",
                  duration |-> Min(Seconds(60),
                                   IF video_duration > 0 THEN video_duration
                                   ELSE Seconds(60))]
    /\ tpc' = "returned"
    /\ UNCHANGED <<summarizeVars, args, pc, locals, returns, input_video,
                   video_duration, segments, index, segment_files, temp_dir>>

\* Lines 127-143 when ffmpeg cannot be started: the inner handler prints and
\* sys.exit(1) ends the process.
ExceptExit ==
    /\ tpc = "except"
    /\ stderr' = stderr \o <<exception, "FileNotFoundError">>
    /\ exception' = "SystemExit"
    /\ tpc' = "exited"
    /\ UNCHANGED <<summarizeVars, args, pc, locals, returns, input_video,
                   video_duration, segments, index, segment_files, temp_dir,
                   output>>

NextTrim ==
    \/ Probe
    \/ SelectCall
    \/ Parse
    \/ Score
    \/ Target
    \/ Anchors
    \/ StrideStep
    \/ StrideExit
    \/ TopUp
    \/ Return
    \/ Except
    \/ ReturnEmpty
    \/ PlanOrFallback
    \/ MakeTempDir
    \/ ExtractSkip
    \/ Extract
    \/ ExtractFails
    \/ ExtractEnd
    \/ CopyDefault
    \/ CopyDefaultFails
    \/ Concatenate
    \/ ConcatenateFails
    \/ Cleanup
    \/ ExceptCopy
    \/ ExceptExit

SpecTrim == InitTrim /\ [][NextTrim]_vars

\* ------------------------------------------------------ the summarizer

UpperChars ==
    {"A", "B", "C", "D", "E", "F", "G", "H", "I", "J", "K", "L", "M", "N", "O",
     "P", "Q", "R", "S", "T", "U", "V", "W", "X", "Y", "Z"}

\* The characters of word.strip(".,;:!?\"'()[]{}"), lines 181, 195.
Punctuation ==
    {".", ",", ";", ":", "!", "?", "\"", "'", "(", ")", "[", "]", "{", "}"}

\* s.strip(chars)
RECURSIVE StripChars(_, _)
StripChars(s, chars) ==
    IF s # <<>> /\ Head(s) \in chars THEN StripChars(Tail(s), chars)
    ELSE IF s # <<>> /\ s[Len(s)] \in chars
    THEN StripChars(SubSeq(s, 1, Len(s) - 1), chars)
    ELSE s

\* s.split(): the maximal runs of characters that are not whitespace.
RECURSIVE Words(_)
Words(s) ==
    LET t == LStrip(s)
        gaps == {j \in 1..Len(t) : t[j] \in Whitespace}
        n == IF gaps = {} THEN Len(t) + 1
             ELSE CHOOSE j \in gaps : \A k \in gaps : j <= k
    IN  IF t = <<>> THEN <<>>
        ELSE <<SubSeq(t, 1, n - 1)>> \o Words(SubSeq(t, n, Len(t)))

\* s.replace(old, new): the occurrences of old, left to right, none
\* overlapping another.
RECURSIVE Replace(_, _, _)
Replace(s, old, new) ==
    LET found == Occurrences(s, old)
    IN  IF found = {} THEN s
        ELSE LET j == CHOOSE m \in found : \A k \in found : m <= k
             IN  SubSeq(s, 1, j - 1) \o new
                 \o Replace(SubSeq(s, j + Len(old), Len(s)), old, new)

\* seq[:n] with everything kept.
UnboundedSlice(seq, n) == seq

\* seq[:n]
FirstN(seq, n) == SubSeq(seq, 1, Min(n, Len(seq)))

\* Lines 93-95.
filler_words ==
    <<<<"u", "m">>, <<"u", "h">>, <<"l", "i", "k", "e">>,
      <<"y", "o", "u", " ", "k", "n", "o", "w">>, <<"s", "o">>,
      <<"a", "c", "t", "u", "a", "l", "l", "y">>,
      <<"b", "a", "s", "i", "c", "a", "l", "l", "y">>,
      <<"l", "i", "t", "e", "r", "a", "l", "l", "y">>,
      <<"h", "o", "n", "e", "s", "t", "l", "y">>, <<"n", "o", "w">>,
      <<"t", "h", "e", "n">>, <<"w", "e", "l", "l">>, <<"j", "u", "s", "t">>,
      <<"o", "k", "a", "y">>, <<"r", "i", "g", "h", "t">>,
      <<"y", "e", "a", "h">>, <<"m", "m", "m">>, <<"h", "m", "m">>,
      <<"a", "h">>, <<"o", "h">>, <<"e", "r">>, <<"u", "m">>,
      <<"u", "h", "h">>, <<"a", "h", "e", "m">>>>

\* Lines 109-116.
stop_words ==
    <<<<"t", "h", "i", "s">>, <<"t", "h", "a", "t">>,
      <<"t", "h", "e", "s", "e">>, <<"t", "h", "o", "s", "e">>,
      <<"w", "i", "t", "h">>, <<"h", "a", "v", "e">>, <<"f", "r", "o", "m">>,
      <<"t", "h", "e", "y">>, <<"w", "i", "l", "l">>, <<"w", "h", "a", "t">>,
      <<"w", "h", "e", "n">>, <<"w", "h", "e", "r", "e">>,
      <<"t", "h", "e", "i", "r">>, <<"t", "h", "e", "r", "e">>,
      <<"h", "e", "r", "e">>, <<"a", "b", "o", "u", "t">>,
      <<"w", "h", "i", "c", "h">>, <<"w", "e", "r", "e">>,
      <<"w", "o", "u", "l", "d">>, <<"c", "o", "u", "l", "d">>,
      <<"s", "h", "o", "u", "l", "d">>, <<"d", "o", "e", "s">>,
      <<"d", "o", "i", "n", "g">>, <<"b", "e", "c", "a", "u", "s", "e">>,
      <<"t", "h", "r", "o", "u", "g", "h">>, <<"s", "o", "m", "e">>,
      <<"o", "t", "h", "e", "r">>, <<"m", "o", "r", "e">>,
      <<"m", "o", "s", "t">>, <<"s", "u", "c", "h">>, <<"b", "e", "e", "n">>,
      <<"b", "e", "i", "n", "g">>, <<"v", "e", "r", "y">>,
      <<"m", "u", "c", "h">>, <<"m", "a", "n", "y">>, <<"y", "o", "u", "r">>,
      <<"y", "o", "u", "r", "s">>, <<"t", "h", "e", "m">>,
      <<"t", "h", "e", "n">>, <<"t", "h", "a", "n">>, <<"t", "h", "a", "t">>,
      <<"a", "l", "s", "o">>, <<"o", "v", "e", "r">>, <<"o", "n", "l", "y">>,
      <<"i", "n", "t", "o">>, <<"s", "a", "m", "e">>, <<"e", "v", "e", "n">>,
      <<"h", "i", "m", "s", "e", "l", "f">>,
      <<"h", "e", "r", "s", "e", "l", "f">>,
      <<"m", "y", "s", "e", "l", "f">>,
      <<"y", "o", "u", "r", "s", "e", "l", "f">>,
      <<"i", "t", "s", "e", "l", "f">>>>

InSeq(x, seq) == \E j \in 1..Len(seq) : seq[j] = x

\* Lines 96-97: " " + word + " " is replaced by " ", one filler after the
\* other.
RECURSIVE RemoveFillers(_, _)
RemoveFillers(clean_text, fillers) ==
    IF fillers = <<>> \/ clean_text = <<>> THEN clean_text
    ELSE RemoveFillers(Replace(clean_text, <<" ">> \o Head(fillers) \o <<" ">>, <<" ">>),
                       Tail(fillers))

\* The elements of seq at the places in kept, in the order of seq.
Pick(seq, kept) ==
    [f \in 1..Cardinality(kept) |->
        seq[CHOOSE j \in kept : Cardinality({k \in kept : k < j}) = f - 1]]

\* The keys of a dict that counts the elements of items, in the order in
\* which they were first met, each with its count.
Frequencies(items) ==
    Pick([j \in 1..Len(items) |->
             [key |-> items[j],
              freq |-> Cardinality({k \in 1..Len(items) : items[k] = items[j]})]],
         {j \in 1..Len(items) : \A k \in 1..(j - 1) : items[k] # items[j]})

\* sorted(freq.items(), key=lambda x: x[1], reverse=True): stable.
InsertByFreq(sorted, x) ==
    LET p == Cardinality({j \in 1..Len(sorted) : sorted[j].freq >= x.freq})
    IN  SubSeq(sorted, 1, p) \o <<x>> \o SubSeq(sorted, p + 1, Len(sorted))

RECURSIVE SortByFreq(_)
SortByFreq(items) ==
    IF items = <<>> THEN <<>>
    ELSE InsertByFreq(SortByFreq(SubSeq(items, 1, Len(items) - 1)), items[Len(items)])

\* [key for key, freq in top if freq > threshold]
KeysAbove(top, threshold) ==
    Pick([j \in 1..Len(top) |-> top[j].key],
         {j \in 1..Len(top) : top[j].freq > threshold})

\* A word that n-grams and topics are made of: longer than 3, no stop word.
TopicWord(w) == Len(w) > 3 /\ ~InSeq(w, stop_words)

\* Lines 119-136: the runs of n words of word_list, all of them topic
\* words, joined by a space.
NGrams(word_list, n) ==
    Pick([j \in 1..Max(0, Len(word_list) - n + 1) |->
             Join(SubSeq(word_list, j, j + n - 1), <<" ">>)],
         {j \in 1..(Len(word_list) - n + 1) :
             \A k \in 0..(n - 1) : TopicWord(word_list[j + k])})

\* Lines 89-173: the topics of the text.
Topics(text) ==
    LET clean_text == RemoveFillers(Lower(text), filler_words)
        word_list == Words(clean_text)
        words == Pick(word_list, {j \in 1..Len(word_list) : Len(word_list[j]) > 3})
        counted == Frequencies(words)
        word_freq == Pick(counted, {j \in 1..Len(counted) :
                                       ~InSeq(counted[j].key, stop_words)})
        word_topics ==
            FirstN(KeysAbove(SortByFreq(word_freq), Max(2, Len(words) \div 200)), 7)
        bigram_topics ==
            FirstN(KeysAbove(SortByFreq(Frequencies(NGrams(word_list, 2))), 1), 3)
        trigram_topics ==
            FirstN(KeysAbove(SortByFreq(Frequencies(NGrams(word_list, 3))), 1), 2)
    IN  FirstN(trigram_topics \o bigram_topics \o word_topics, 8)

\* Lines 182-183: the word counts as capitalized.
Capitalized(word) ==
    LET clean_word == StripChars(word, Punctuation)
    IN  Len(clean_word) > 1 /\ clean_word[1] \in UpperChars

\* Lines 177-190: the maximal runs of capitalized words, joined by a space.
RECURSIVE CapitalizedPhrases(_, _)
CapitalizedPhrases(words, current_phrase) ==
    IF words = <<>>
    THEN IF current_phrase = <<>> THEN <<>> ELSE <<Join(current_phrase, <<" ">>)>>
    ELSE IF Capitalized(Head(words))
    THEN CapitalizedPhrases(Tail(words), Append(current_phrase, Head(words)))
    ELSE (IF current_phrase = <<>> THEN <<>> ELSE <<Join(current_phrase, <<" ">>)>>)
         \o CapitalizedPhrases(Tail(words), <<>>)

\* Line 207: two points for more than one word, one for each mention up to 3.
Priority(entity, count) ==
    (IF Len(Words(entity)) > 1 THEN 2 ELSE 0) + Min(3, count)

\* Lines 216-228, one pass of the loop: an entity inside a kept one is
\* dropped; else it takes the place of the first kept one inside it, or is
\* appended.
MergeEntity(final_entities, entity) ==
    LET inside(a, b) == a # b /\ Contains(b, a)
        holders == {j \in 1..Len(final_entities) : inside(entity, final_entities[j])}
        held == {j \in 1..Len(final_entities) : inside(final_entities[j], entity)}
    IN  IF holders # {} THEN final_entities
        ELSE IF held # {}
        THEN [final_entities EXCEPT
                 ![CHOOSE j \in held : \A k \in held : j <= k] = entity]
        ELSE Append(final_entities, entity)

RECURSIVE MergeEntities(_)
MergeEntities(entities) ==
    IF entities = <<>> THEN <<>>
    ELSE MergeEntity(MergeEntities(SubSeq(entities, 1, Len(entities) - 1)),
                     entities[Len(entities)])

\* Lines 175-230: the entities of the text.
Entities(text) ==
    LET phrases == CapitalizedPhrases(Words(text), <<>>)
        stripped == [j \in 1..Len(phrases) |-> StripChars(phrases[j], Punctuation)]
        clean_phrases == Pick(stripped, {j \in 1..Len(stripped) : stripped[j] # <<>>})
        entity_count == Frequencies(clean_phrases)
        prioritized_entities ==
            [j \in 1..Len(entity_count) |->
                [key |-> entity_count[j].key,
                 freq |-> Priority(entity_count[j].key, entity_count[j].freq)]]
        sorted == SortByFreq(prioritized_entities)
        entities == FirstN([j \in 1..Len(sorted) |-> sorted[j].key], 8)
    IN  FirstN(MergeEntities(entities), 6)

\* analyze_content(text), lines 85-230.
analyze_content(text) == [topics |-> Topics(text), entities |-> Entities(text)]

\* Lines 40-69, one segment: its text, the lines after the header joined by
\* a space, or the header when it is the only line.
SegmentText(segment) ==
    LET lines == Split(segment, <<NL>>)
    IN  IF Len(lines) > 1 THEN Join(Tail(lines), <<" ">>) ELSE lines[1]

\* Lines 47-57, one segment: the speaker its header names, if any.
SegmentSpeakers(segment) ==
    LET header == Split(segment, <<NL>>)[1]
        parts == Split(header, <<" ", "-", " ">>)
    IN  IF Len(parts) > 1 /\ Contains(parts[2], <<":">>)
        THEN {Strip(Split(parts[2], <<":">>)[1])}
        ELSE {}

\* process_transcript_segments(segments), lines 30-83: the segments that
\* have a text, the speakers, and the analysis of " " + text for every text.
process_transcript_segments(segs) ==
    LET every == [j \in 1..Len(segs) |-> SegmentText(segs[j])]
        texts == Pick(every, {j \in 1..Len(every) : every[j] # <<>>})
        all_text == Concat([j \in 1..Len(texts) |-> <<" ">> \o texts[j]])
        found == analyze_content(all_text)
    IN  [texts |-> texts,
         speakers |-> UNION {SegmentSpeakers(segs[j]) : j \in 1..Len(segs)},
         topics |-> found.topics,
         entities |-> found.entities]

\* Words that can be topics, and names that can be entities.
TopicWords ==
    <<<<"a", "l", "f", "a">>,
      <<"b", "e", "t", "a">>,
      <<"g", "a", "m", "a">>,
      <<"d", "e", "l", "t">>,
      <<"e", "c", "h", "o">>,
      <<"k", "i", "l", "o">>,
      <<"l", "i", "m", "a">>>>
EntityNames ==
    <<<<"A", "b">>, <<"C", "d">>, <<"E", "f">>,
      <<"G", "h">>, <<"I", "j">>, <<"K", "l">>,
      <<"M", "n">>, <<"O", "p">>, <<"Q", "r">>,
      <<"S", "t">>, <<"U", "v">>>>

\* The first n topic words, said three times over.
TopicPart(n) ==
    Join([j \in 1..(3 * n) |-> TopicWords[((j - 1) % n) + 1]], <<" ">>)

\* The first m names, an "x" between one and the next.
EntityPart(m) ==
    Join([j \in 1..m |-> EntityNames[j]], <<" ", "x", " ">>)

\* Texts with up to 2 + 3 + MaxTopicWords candidate topics and up to
\* MaxEntityNames candidate entities.
HeavyTexts ==
    {TopicPart(n) \o <<" ">> \o EntityPart(m) :
        n \in 0..MaxTopicWords, m \in 0..MaxEntityNames}

\* The words of the short texts: names, a name with a full stop, a filler,
\* a stop word and a topic word.
SummaryVocabulary ==
    {<<"A", "n", "n">>,
     <<"L", "e", "e">>,
     <<"A", "n", "n", ".">>,
     <<"u", "m">>,
     <<"t", "h", "a", "t">>,
     <<"a", "l", "f", "a">>}

\* Every text of up to MaxSummaryWords words of the vocabulary.
ShortTexts ==
    UNION {{Join(w, <<" ">>) : w \in [1..n -> SummaryVocabulary]} :
              n \in 0..MaxSummaryWords}

\* "Ann" said ra times and "Lee" said rb times, an "x" after each, then a
\* name that holds "Ann": "Ann Lee" or "Anna".
MentionTexts ==
    {Join([j \in 1..(ra + rb) |->
              IF j <= ra THEN <<"A", "n", "n">> ELSE <<"L", "e", "e">>]
          \o <<last>>, <<" ", "x", " ">>) :
        ra \in 1..MaxMentions, rb \in 1..MaxMentions,
        last \in {<<"A", "n", "n", " ", "L", "e", "e">>, <<"A", "n", "n", "a">>}}

\* The transcription handed to summarize_text: a text alone, a block with a
\* header, the examples, or an object that is no str (None).
SummaryInputs ==
    {[isStr |-> TRUE, text |-> t] :
        t \in ShortTexts \cup MentionTexts
              \cup {Block(HdrZero, h) : h \in HeavyTexts}
              \cup ExampleTranscripts}
    \cup {NoTranscription}

\* summarize_text is entered; trim_video and the selector are not running.
InitSummarize ==
    /\ transcription \in SummaryInputs
    /\ duration = NoDuration
    /\ pc = "idle"
    /\ LocalsUnbound
    /\ TrimIdle
    /\ spc = "split"
    /\ raw_segments = <<>>
    /\ transcript_data = [texts |-> <<>>, speakers |-> {}, topics |-> <<>>,
                          entities |-> <<>>]
    /\ summary = [isStr |-> FALSE]

\* Line 16: transcription.strip().split('\n\n'); an object without strip()
\* raises.
SplitSegments ==
    /\ spc = "split"
    /\ IF ~transcription.isStr
       THEN /\ exception' = "AttributeError"
            /\ spc' = "except"
            /\ UNCHANGED raw_segments
       ELSE /\ raw_segments' = Split(Strip(transcription.text), <<NL, NL>>)
            /\ spc' = "process"
            /\ UNCHANGED exception
    /\ UNCHANGED <<trimVars, args, pc, locals, stderr, returns,
                   transcript_data, summary>>

\* Line 19.
ProcessSegments ==
    /\ spc = "process"
    /\ transcript_data' = process_transcript_segments(raw_segments)
    /\ spc' = "generate"
    /\ UNCHANGED <<trimVars, args, pc, locals, exception, stderr, returns,
                   raw_segments, summary>>

\* Line 22: generate_comprehensive_summary returns a str for every
\* transcript_data made of a str; its wording is not modelled.
GenerateSummary ==
    /\ spc = "generate"
    /\ summary' = [isStr |-> TRUE]
    /\ spc' = "return"
    /\ UNCHANGED <<trimVars, args, pc, locals, exception, stderr, returns,
                   raw_segments, transcript_data>>

\* Line 24.
ReturnSummary ==
    /\ spc = "return"
    /\ spc' = "returned"
    /\ UNCHANGED <<trimVars, args, pc, locals, exception, stderr, returns,
                   raw_segments, transcript_data, summary>>

\* Lines 26-28: the handler prints the exception and sys.exit(1) ends the
\* process.
SummarizeExcept ==
    /\ spc = "except"
    /\ stderr' = Append(stderr, exception)
    /\ exception' = "SystemExit"
    /\ spc' = "exited"
    /\ UNCHANGED <<trimVars, args, pc, locals, returns, raw_segments,
                   transcript_data, summary>>

NextSummarize ==
    \/ SplitSegments
    \/ ProcessSegments
    \/ GenerateSummary
    \/ ReturnSummary
    \/ SummarizeExcept

SpecSummarize == InitSummarize /\ [][NextSummarize]_vars

\* ------------------------------------------------------------ the claims

\* A call has returned; Plan is what it returned.
Done == pc = "done"
Plan == returns[Len(returns)]

RECURSIVE SumDurations(_)
SumDurations(plan) ==
    IF plan = <<>> THEN 0 ELSE Head(plan).duration + SumDurations(Tail(plan))

\* The blocks of the transcription, as line 154 splits them.
Parts == Split(Strip(transcription.text), <<NL, NL>>)

\* The duration is a number above 0.
PositiveDuration == duration.isNumber /\ duration.value > 0

\* C1: the returned plan is in chronological order, plan[i].start <=
\* plan[i+1].start for every adjacent pair of clips.  (The function returns
\* the clips in the order it selected them: this is violated.)
C1_ChronologicalOrder ==
    Done => \A j \in 1..(Len(Plan) - 1) : Plan[j].start <= Plan[j + 1].start

\* C2: when every parsed timestamp lies in [0, duration], every clip of the
\* returned plan ends inside the source: start + duration <= source
\* duration.  (No clip is clamped: this is violated.)
C2_ClipEndsInsideSource ==
    (/\ Done
     /\ transcription.isStr
     /\ duration.isNumber
     /\ \A j \in 1..Len(timestamp_segments) :
            /\ timestamp_segments[j].start >= 0
            /\ timestamp_segments[j].start <= duration.value)
    => \A j \in 1..Len(Plan) : Plan[j].start + Plan[j].duration <= duration.value

\* C3 as stated: for a duration above 0 the clip durations of the plan sum
\* to at most target_duration + 45 s.  (The anchors are added whatever the
\* target: this is violated.)
C3_SumWithinTargetPlusTopUp ==
    (Done /\ transcription.isStr /\ PositiveDuration)
    => SumDurations(Plan) <= TargetDuration(duration.value) + TopUpCount * TopUpDuration

\* C3 as amended: for a duration above 0 the clip durations of the plan sum
\* to at most the larger of the anchors' total, 20 s for each of the first
\* min(3, n) of the n parsed segments, and target_duration + 45 s.
C3_SumWithinAnchorsOrTargetPlusTopUp ==
    (Done /\ transcription.isStr /\ PositiveDuration)
    => SumDurations(Plan) <=
           Max(AnchorDuration * Min(MaxAnchors, Len(timestamp_segments)),
               TargetDuration(duration.value) + TopUpCount * TopUpDuration)

\* C3's case: the top-up pass has added its three clips and taken the plan
\* above the target.
C3_Witness ==
    /\ Done
    /\ PositiveDuration
    /\ Cardinality({j \in 1..Len(Plan) : Plan[j].duration = TopUpDuration}) = TopUpCount
    /\ SumDurations(Plan) > TargetDuration(duration.value)

\* C4: every clip of the returned plan has start >= 0 and duration > 0.
\* (A header "-1:00 - A:" is accepted and gives a start of -60 s: this is
\* violated.)
C4_NonNegativeClips ==
    Done => \A j \in 1..Len(Plan) : Plan[j].start >= 0 /\ Plan[j].duration > 0

\* C5: when no block of the transcription parses, the call returns the
\* empty list for any duration above 0, and no exception was raised.
C5_EmptyInputLaw ==
    (Done /\ transcription.isStr /\ timestamp_segments = <<>> /\ PositiveDuration)
    => Plan = <<>> /\ stderr = <<>> /\ exception = "none"

\* C5's case: a transcription of two blocks, neither of which parses.
C5_Witness ==
    /\ Done
    /\ PositiveDuration
    /\ transcription.isStr
    /\ Len(Parts) = 2
    /\ timestamp_segments = <<>>
    /\ Plan = <<>>

\* C6: a duration that is not above 0, or is missing, is rejected: with
\* parsed segments at hand the call signals the condition and returns no
\* clip.  (A duration <= 0 gives a target <= 0 and the anchors are returned:
\* this is violated.)
C6_DegenerateDurationRejected ==
    (/\ Done
     /\ transcription.isStr
     /\ timestamp_segments # <<>>
     /\ ~PositiveDuration)
    => Plan = <<>> /\ stderr # <<>>

\* C7: calls with the same transcription and duration return the same plan,
\* clip for clip: no call sees what an earlier call left behind.
C7_Determinism ==
    \A a, b \in 1..Len(returns) : returns[a] = returns[b]

\* C7's case: a second call has returned a plan built by all three phases.
C7_Witness ==
    /\ Done
    /\ Len(returns) = 2
    /\ Len(returns[2]) > MaxAnchors
    /\ \E j \in 1..Len(returns[2]) : returns[2][j].duration = TopUpDuration

\* C8: no exception leaves the function; a call in which one was raised
\* ends by returning the empty list.
C8_NoExceptionEscapes ==
    /\ pc # "raised"
    /\ Done => exception = "none"
    /\ (Done /\ (~transcription.isStr \/ stderr # <<>>)) => Plan = <<>>

\* C8's case: a duration that cannot be multiplied, met after segments were
\* parsed and scored, and the call has returned.
C8_Witness ==
    /\ Done
    /\ transcription.isStr
    /\ timestamp_segments # <<>>
    /\ ~duration.isNumber
    /\ stderr = <<"TypeError">>
    /\ Plan = <<>>

\* The transcription is one block headed by a time alone, "00:30".
TimeOnlyTranscription ==
    transcription.isStr /\ \E b \in Bodies : transcription.text = Block(HdrTimeOnly, b)

\* C9: a block headed by a time alone is parsed like the block headed by the
\* same time with " - A:" after it, into a segment at minutes*60 + seconds
\* (less the lead-in), and takes part in the selection.  (A header without
\* " - " is skipped: this is violated.)
C9_TimeOnlyHeaderParsed ==
    (Done /\ TimeOnlyTranscription /\ duration.isNumber)
    => /\ timestamp_segments =
              ParseTranscription(
                  HdrTimeOnly \o <<" ", "-", " ", "A", ":">>
                  \o SubSeq(transcription.text, Len(HdrTimeOnly) + 1,
                            Len(transcription.text)))
       /\ Len(timestamp_segments) = 1
       /\ timestamp_segments[1].start = 300 - LeadIn
       /\ Plan # <<>>

\* The segment of each block that parses, block after block.
SegmentsOf(parts) == Concat([j \in 1..Len(parts) |-> ParsePart(parts[j])])

\* C10: a block that is skipped neither ends the parsing nor empties its
\* result: the parsed segments are those of the blocks that parse, one for
\* each, in the order of the blocks.
C10_SoftParseFailure ==
    (Done /\ transcription.isStr) => timestamp_segments = SegmentsOf(Parts)

\* C10's case: a block that is skipped comes before a block that parses, and
\* the segment of the latter is there.
C10_Witness ==
    /\ Done
    /\ transcription.isStr
    /\ Len(timestamp_segments) = 1
    /\ Len(Parts) = 2
    /\ ParsePart(Parts[1]) = <<>>
    /\ timestamp_segments = ParsePart(Parts[2])

\* The m-th scored segment comes before the j-th in the ranking: a higher
\* score, or the same score and an earlier place in the transcript.
RankedBefore(scored, m, j) ==
    \/ scored[m].score > scored[j].score
    \/ scored[m].score = scored[j].score /\ m < j

\* The place in the transcript of the segment ranked k-th.
RankedAt(scored, k) ==
    CHOOSE j \in 1..Len(scored) :
        Cardinality({m \in 1..Len(scored) : RankedBefore(scored, m, j)}) = k - 1

\* C11: whenever n >= 1 segments are parsed, the plan holds one 20 s clip for
\* each of the first min(3, n) segments of the ranking by score descending,
\* ties going to the earlier segment, whatever their position in the
\* transcript and whatever the target duration.
C11_AnchorsByRank ==
    (Done /\ transcription.isStr /\ duration.isNumber /\ timestamp_segments # <<>>) =>
        LET scored == ScoreSegments(timestamp_segments)
            K == Min(3, Len(scored))
        IN  /\ Len(Plan) >= K
            /\ \A k \in 1..K :
                   Plan[k] = [start |-> scored[RankedAt(scored, k)].start,
                              duration |-> 200]

\* C11's case: more than three segments, the third and the fourth of the
\* ranking have the same score, and the three anchors alone pass the target.
C11_Witness ==
    /\ Done
    /\ transcription.isStr
    /\ duration.isNumber
    /\ Len(timestamp_segments) > 3
    /\ LET scored == ScoreSegments(timestamp_segments)
       IN  scored[RankedAt(scored, 3)].score = scored[RankedAt(scored, 4)].score
    /\ target_duration < 600
    /\ Len(Plan) = 3

\* The fields of the time of a block's header, as lines 165-172 split them.
HeaderFields(part) ==
    Split(Split(Split(part, <<NL>>)[1], <<" ", "-", " ">>)[1], <<":">>)

\* The block's header is "MM:SS - speaker": two fields of digits only.
HeaderIsMMSS(part) ==
    LET fields == HeaderFields(part)
    IN  /\ Contains(Split(part, <<NL>>)[1], <<" ", "-", " ">>)
        /\ Len(fields) = 2
        /\ \A f \in 1..2 :
               /\ fields[f] # <<>>
               /\ \A c \in 1..Len(fields[f]) : fields[f][c] \in DigitChars

\* minutes*60 + seconds of an MM:SS header, in tenths of a second.
HeaderStartTime(part) ==
    LET fields == HeaderFields(part)
    IN  10 * (DigitsValue(fields[1]) * 60 + DigitsValue(fields[2]))

\* The starts max(0, start_time - 0.5) of the MM:SS blocks of parts, in order.
LeadInStarts(parts) ==
    LET timed == SelectSeq(parts, HeaderIsMMSS)
    IN  [j \in 1..Len(timed) |-> Max(0, HeaderStartTime(timed[j]) - 5)]

\* Every block of parts either has an MM:SS header or is skipped.
OnlyMMSS(parts) ==
    \A j \in 1..Len(parts) : HeaderIsMMSS(parts[j]) \/ ParsePart(parts[j]) = <<>>

\* The segments of the blocks of parts and the clips of the plan start
\* max(0, start_time - 0.5) after the header times.
StartsFollowHeaders(parts) ==
    OnlyMMSS(parts) =>
        LET starts == LeadInStarts(parts)
        IN  /\ Len(timestamp_segments) = Len(starts)
            /\ \A j \in 1..Len(starts) : timestamp_segments[j].start = starts[j]
            /\ \A k \in 1..Len(Plan) :
                   /\ Plan[k].start >= 0
                   /\ \E j \in 1..Len(starts) : Plan[k].start = starts[j]

\* C12: for segments whose header time is MM:SS, the start of the segment,
\* which is the start of every clip made of it, is max(0, start_time - 0.5)
\* with start_time = minutes*60 + seconds; a segment at 00:00 starts at 0
\* and no clip starts below 0.
C12_LeadInStart ==
    (Done /\ transcription.isStr /\ duration.isNumber) => StartsFollowHeaders(Parts)

\* C12's case: a block at 00:00 and a block at 01:00 are both selected, the
\* clips start at 0 and at 59.5 s.
C12_Witness ==
    /\ Done
    /\ transcription.isStr
    /\ duration.isNumber
    /\ Len(timestamp_segments) = 2
    /\ OnlyMMSS(Parts)
    /\ LeadInStarts(Parts) = <<0, 595>>
    /\ {Plan[k].start : k \in 1..Len(Plan)} = {0, 595}

\* The example of the specification is the transcription, with 120 s.
ExampleCall ==
    /\ transcription =
           [isStr |-> TRUE,
            text |-> Block(HdrZero, ExIntro) \o <<NL, NL>> \o Block(HdrMinute, ExFiller)]
    /\ duration = [isNumber |-> TRUE, value |-> 1200]

\* C13: in the example the first segment scores strictly higher than the
\* second, the plan holds the clip {start 0, duration 20 s}, and the plan is
\* in order of start.
C13_ExampleScenario ==
    (Done /\ ExampleCall) =>
        /\ Len(scored_segments) = 2
        /\ \A a, b \in 1..Len(scored_segments) :
               (scored_segments[a].start = 0 /\ scored_segments[b].start > 0)
                   => scored_segments[a].score > scored_segments[b].score
        /\ \E k \in 1..Len(Plan) : Plan[k] = [start |-> 0, duration |-> 200]
        /\ \A j, k \in 1..Len(Plan) : j < k => Plan[j].start <= Plan[k].start

\* C13's case: the call of the example has returned its two clips.
C13_Witness ==
    /\ Done
    /\ ExampleCall
    /\ Len(Plan) = 2
    /\ Plan[1].start = 0

\* trim_video has just taken the empty plan of the selector and made its
\* own segments.
FallbackTaken ==
    /\ tpc = "mkdtemp"
    /\ returns[Len(returns)] = <<>>

Serialize(segs) ==
    Join([j \in 1..Len(segs) |->
             format_timestamp(segs[j].start)
                 \o <<" ", "-", " ", "S", "p", "e", "a", "k", "e", "r", ":", NL>>
                 \o segs[j].content],
         <<NL, NL>>)

\* Segments that the canonical text can hold: a start that is not negative
\* and a text that is not empty.
Serializable(segs) ==
    \A j \in 1..Len(segs) : segs[j].start >= 0 /\ segs[j].content # <<>>

\* C15: parsing the canonical text of the parsed segments gives the same
\* sequence of start times and texts as the first parse.
C15_ParseRoundTrip ==
    (Done /\ transcription.isStr /\ Serializable(timestamp_segments)) =>
        ParseTranscription(Serialize(timestamp_segments)) = timestamp_segments

\* summarize_text has the result of process_transcript_segments, which is
\* that of analyze_content.
Analyzed == spc \in {"generate", "return", "returned"}

\* C16: for every text analyze_content returns at most 8 topics and at most
\* 6 entities.
C16_TopicEntityCaps ==
    Analyzed =>
        /\ Len(transcript_data.topics) <= 8
        /\ Len(transcript_data.entities) <= 6

\* C16's case: a text of four words said three times, which gives nine
\* candidate topics, and of seven names, is analyzed to 8 topics and 6
\* entities.
C16_Witness ==
    /\ Analyzed
    /\ transcript_data.texts = <<TopicPart(4) \o <<" ">> \o EntityPart(7)>>
    /\ Len(transcript_data.topics) = 8
    /\ Len(transcript_data.entities) = 6

\* C17: summarize_text does not end the process on an internal error; the
\* failure comes back to the caller as a value.
C17_NoProcessExit == spc # "exited"

\* The number of anchors of the current call.
AnchorCount == Min(3, Len(scored_segments))

\* The number of clips the stride phase has appended so far.
StrideCount == Len(selected_segments) - AnchorCount

\* C18: with target_duration = min(0.4 * duration, 180), the stride phase
\* appends no clip when the accumulated duration is already at or above the
\* target: each stride clip was appended below the target, so after the
\* phase the accumulated duration is below target + 20 s whenever a stride
\* clip was added, and anchors that alone reach the target are the whole plan.
C18_StrideStopRule ==
    /\ pc \in {"stride", "topup"} =>
           /\ target_duration = Min((duration.value * 4) \div 10, 1800)
           /\ current_duration = 200 * Len(selected_segments)
           /\ StrideCount > 0 =>
                  /\ 200 * AnchorCount + 200 * (StrideCount - 1) < target_duration
                  /\ current_duration < target_duration + 200
    /\ (Done /\ transcription.isStr /\ duration.isNumber /\ timestamp_segments # <<>>
             /\ 200 * AnchorCount >= target_duration) =>
           /\ Len(Plan) = AnchorCount
           /\ \A k \in 1..Len(Plan) : Plan[k].duration = 200

\* C18's case: the stride phase has appended clips and stopped at the
\* target while segments were still left to visit.
C18_Witness ==
    /\ pc = "topup"
    /\ StrideCount > 1
    /\ current_duration >= target_duration
    /\ i < Len(remaining_segments)

\* The chronological list of the segments that are not anchors: in order of
\* start, and the same segments as those after the anchors in the ranking.
IsChronologicalRest(remaining) ==
    LET rest == SubSeq(scored_segments, AnchorCount + 1, Len(scored_segments))
    IN  /\ Len(remaining) = Len(rest)
        /\ \A j, k \in 1..Len(remaining) :
               j < k => remaining[j].start <= remaining[k].start
        /\ \A x \in {rest[j] : j \in 1..Len(rest)} :
               Cardinality({j \in 1..Len(rest) : rest[j] = x})
                   = Cardinality({j \in 1..Len(remaining) : remaining[j] = x})

\* The number of 20 s clips that take the accumulation from the anchors'
\* total to the target or above.
StrideClipsNeeded ==
    IF target_duration <= 200 * AnchorCount THEN 0
    ELSE (target_duration - 200 * AnchorCount + 199) \div 200

\* C19: the r segments that are not anchors are put in order of start and
\* the stride phase gives a 20 s clip to the indices 0, step, 2*step, ... of
\* that list, step = max(1, r div 8), until the list ends or the target is
\* reached.
C19_StrideSelection ==
    pc = "topup" =>
        LET r == Len(scored_segments) - AnchorCount
            stride == Max(1, r \div 8)
            visited == Min((r + stride - 1) \div stride, StrideClipsNeeded)
        IN  /\ IsChronologicalRest(remaining_segments)
            /\ step = stride
            /\ StrideCount = visited
            /\ \A k \in 1..visited :
                   selected_segments[AnchorCount + k] =
                       [start |-> remaining_segments[(k - 1) * stride + 1].start,
                        duration |-> 200]

\* C19's case: a stride of 2 and more than two stride clips.
C19_Witness ==
    /\ pc = "topup"
    /\ Len(scored_segments) - AnchorCount >= 16
    /\ step = 2
    /\ StrideCount > 2

\* The places of the plan that hold a 15 s clip.
TopUpPlaces == {k \in 1..Len(Plan) : Plan[k].duration = 150}

\* C20: the top-up pass runs at most once, only when the accumulation after
\* the stride phase is below the target and a segment that is no anchor
\* exists; it appends exactly min(3, r) clips of 15 s and nothing comes
\* after them.
C20_TopUpOnce ==
    (Done /\ transcription.isStr /\ duration.isNumber /\ timestamp_segments # <<>>) =>
        LET r == Len(timestamp_segments) - Min(3, Len(timestamp_segments))
            accumulated == 200 * (Len(Plan) - Cardinality(TopUpPlaces))
        IN  /\ \A k \in 1..Len(Plan) : Plan[k].duration \in {150, 200}
            /\ \A j \in TopUpPlaces : \A k \in (j + 1)..Len(Plan) : k \in TopUpPlaces
            /\ Cardinality(TopUpPlaces) =
                   IF accumulated < target_duration /\ r >= 1 THEN Min(3, r) ELSE 0

\* C20's case: the stride phase ended below the target and three 15 s clips
\* close the plan.
C20_Witness ==
    /\ Done
    /\ transcription.isStr
    /\ duration.isNumber
    /\ Len(timestamp_segments) > 6
    /\ Cardinality(TopUpPlaces) = 3
    /\ Plan[Len(Plan)].duration = 150

\* The clips of the plan that start at s, and the parsed segments that do.
ClipsAt(s) == {k \in 1..Len(Plan) : Plan[k].start = s}
SegmentsAt(s) == {m \in 1..Len(timestamp_segments) : timestamp_segments[m].start = s}

\* C21: the plan is a subset of the parsed segments, every segment giving at
\* most one clip: no start is taken by more clips than there are segments
\* that start there.  (The top-up pass draws from the segments the stride
\* pass has already taken: this is violated.)
C21_EachSegmentOnce ==
    (Done /\ transcription.isStr /\ duration.isNumber) =>
        \A j \in 1..Len(Plan) :
            Cardinality(ClipsAt(Plan[j].start)) <= Cardinality(SegmentsAt(Plan[j].start))

\* The score the formula gives the j-th of the parsed segments, in halves:
\* 1.0, 1.0 more at the edges, 1.5 more for a keyword, 0.5 more above 20
\* words.
FormulaScore(j) ==
    LET n == Len(timestamp_segments)
        content == Lower(timestamp_segments[j].content)
    IN  2 + (IF 100 * (j - 1) < 15 * n \/ 100 * (j - 1) > 85 * n THEN 2 ELSE 0)
          + (IF HasKeyword(content) THEN 3 ELSE 0)
          + (IF WordCount(content) > 20 THEN 1 ELSE 0)

\* The j-th parsed segment with the score of the formula.
FormulaScored(j) ==
    [start |-> timestamp_segments[j].start,
     content |-> timestamp_segments[j].content,
     score |-> FormulaScore(j)]

\* C22: the scored segments are the parsed segments, each with the score
\* 1.0 + 1.0*[i/n < 0.15 or i/n > 0.85] + 1.5*[keyword in the lowercased
\* content] + 0.5*[more than 20 words]; every score is one of 1.0, 1.5, ...,
\* 4.0 and a segment of exactly 20 words has no length bonus.
C22_ScoreFormula ==
    (Done /\ transcription.isStr /\ timestamp_segments # <<>>) =>
        LET expected == [j \in 1..Len(timestamp_segments) |-> FormulaScored(j)]
        IN  /\ Len(scored_segments) = Len(expected)
            /\ \A j \in 1..Len(expected) :
                   Cardinality({k \in 1..Len(scored_segments) :
                                    scored_segments[k] = expected[j]})
                   = Cardinality({m \in 1..Len(expected) : expected[m] = expected[j]})
            /\ \A k \in 1..Len(scored_segments) : scored_segments[k].score \in 2..8

\* C22's case: a single segment of exactly 20 words scored 2.0, the base and
\* the positional bonus, and no more.
C22_Witness ==
    /\ Done
    /\ transcription.isStr
    /\ Len(timestamp_segments) = 1
    /\ WordCount(Lower(timestamp_segments[1].content)) = 20
    /\ scored_segments[1].score = 4

\* What the keyword and the length of the j-th parsed segment add to its
\* score, in halves.
SignalBonus(j) ==
    LET content == Lower(timestamp_segments[j].content)
    IN  (IF HasKeyword(content) THEN 3 ELSE 0)
        + (IF WordCount(content) > 20 THEN 1 ELSE 0)

\* C23: in every transcript of n >= 1 parsed segments the first segment and
\* the last segment are scored with the positional bonus: 1.0, 1.0 more, and
\* what their keyword and length add.  (The ratio is i / n with i from 0, at
\* most (n - 1) / n: the last of 2 to 6 segments is not above 0.85 and gets
\* no bonus: this is violated.)
C23_FirstAndLastBonus ==
    (Done /\ transcription.isStr /\ timestamp_segments # <<>>) =>
        \A j \in {1, Len(timestamp_segments)} :
            \E k \in 1..Len(scored_segments) :
                scored_segments[k] =
                    [start |-> timestamp_segments[j].start,
                     content |-> timestamp_segments[j].content,
                     score |-> 2 + 2 + SignalBonus(j)]

\* The topic and entity phrases the analyzer derives from the transcript,
\* lowercased.
AnalyzerPhrases ==
    LET found == process_transcript_segments(Parts)
    IN  {Lower(found.topics[j]) : j \in 1..Len(found.topics)}
        \cup {Lower(found.entities[j]) : j \in 1..Len(found.entities)}

\* C24: a segment whose lowercased text contains a keyword of the fixed list
\* or a topic or entity phrase of the transcript is scored with the lexical
\* bonus of 1.5, on top of the base, of the positional bonus where line 211
\* gives it and of the length bonus.  (The scorer looks for the fixed
\* keywords alone: this is violated.)
C24_TopicEntityBonus ==
    (Done /\ transcription.isStr /\ timestamp_segments # <<>>) =>
        \A j \in 1..Len(timestamp_segments) :
            LET content == Lower(timestamp_segments[j].content)
            IN  (\/ HasKeyword(content)
                 \/ \E p \in AnalyzerPhrases : Contains(content, p))
                => \E k \in 1..Len(scored_segments) :
                       scored_segments[k] =
                           [start |-> timestamp_segments[j].start,
                            content |-> timestamp_segments[j].content,
                            score |-> 2 + 3
                                      + (IF AtEdge(j - 1, Len(timestamp_segments))
                                         THEN 2 ELSE 0)
                                      + (IF WordCount(content) > 20 THEN 1 ELSE 0)]

\* The entities analyze_content returned.
ReturnedEntities == transcript_data.entities

\* C25: no entity analyze_content returns is a proper substring of another
\* entity it returns.  (An entity takes the place of the first kept entity
\* it holds and the other kept entities it holds stay: this is violated.)
C25_NoContainedEntity ==
    Analyzed =>
        \A a, b \in 1..Len(ReturnedEntities) :
            ~(/\ ReturnedEntities[a] # ReturnedEntities[b]
              /\ Contains(ReturnedEntities[b], ReturnedEntities[a]))

\* The text handed to analyze_content, and how often a phrase is met among
\* its runs of capitalized words (the count of line 197).
AnalyzedText == Concat([j \in 1..Len(transcript_data.texts) |->
                           <<" ">> \o transcript_data.texts[j]])
OccurrenceCount(entity) ==
    LET phrases == CapitalizedPhrases(Words(AnalyzedText), <<>>)
    IN  Cardinality({j \in 1..Len(phrases) :
                        StripChars(phrases[j], Punctuation) = entity})

\* priority(e) = 2*[e has more than one word] + min(3, occurrence count).
EntityPriority(entity) ==
    (IF Len(Words(entity)) > 1 THEN 2 ELSE 0) + Min(3, OccurrenceCount(entity))

\* C26: the entities analyze_content returns are in non-increasing order of
\* priority.  (An entity that takes the place of a kept one inherits its
\* rank, ahead of kept entities of higher priority: this is violated.)
C26_EntitiesByPriority ==
    Analyzed =>
        \A a, b \in 1..Len(ReturnedEntities) :
            a < b => EntityPriority(ReturnedEntities[a])
                     >= EntityPriority(ReturnedEntities[b])

\* C27: every span trim_video hands to the extractor lies inside the source:
\* start >= 0, start < video_duration, a duration of 1 s or more, and
\* start + duration <= video_duration.
C27_SpansInsideSource ==
    \A k \in 1..Len(segment_files) :
        /\ segment_files[k].start >= 0
        /\ segment_files[k].start < video_duration
        /\ segment_files[k].duration >= Seconds(1)
        /\ segment_files[k].start + segment_files[k].duration <= video_duration

\* C27's case: of a plan with a clip that starts before 0 and a clip that
\* starts after the end, the first was moved to 0, cut at the end of the
\* source and extracted, the second was skipped, and the output was written.
C27_Witness ==
    /\ tpc = "returned"
    /\ output.kind = "concat"
    /\ \E k \in 1..Len(segments) : segments[k].start < 0
    /\ \E k \in 1..Len(segments) : segments[k].start >= video_duration
    /\ Len(segment_files) < Len(segments)
    /\ \E k \in 1..Len(segment_files) :
           /\ segment_files[k].start = 0
           /\ segment_files[k].duration = video_duration
           /\ segment_files[k].duration < AnchorDuration * Tick

\* C29: when trim_video returns, the temporary directory it made is removed,
\* whatever the path.  (The return of line 100 and the handler of lines
\* 127-143 leave it: this is violated.)
C29_TempDirRemoved ==
    tpc = "returned" => temp_dir # "exists"

\* C28: for every transcription and every duration >= 0 the clip durations
\* of the returned plan sum to at most max(60 s, target_duration + 45 s) with
\* target_duration = min(0.4 * duration, 180 s), and so to at most 225 s.
C28_SumWithinCap ==
    (Done /\ duration.isNumber /\ duration.value >= 0) =>
        /\ SumDurations(Plan) <= Max(600, Min((duration.value * 4) \div 10, 1800) + 450)
        /\ SumDurations(Plan) <= 2250

\* C28's case: a plan for a source of 450 s or more, whose target is the cap
\* of 180 s, that the top-up pass has taken above 180 s.
C28_Witness ==
    /\ Done
    /\ duration.isNumber
    /\ duration.value >= 4500
    /\ \E j \in 1..Len(Plan) : Plan[j].duration = TopUpDuration
    /\ SumDurations(Plan) > CapDuration

\* The transcription is a generated one, and the starts it was made from.
Generated == transcription.isStr /\ transcription.text \in GeneratedTranscripts
GeneratedStarts ==
    (CHOOSE g \in GeneratedCases : g.text = transcription.text).starts

\* Every block of the generated transcription is parsed, in order, to the
\* whole seconds of its start, floor(t), less the lead-in where line 175
\* takes it off.
ParsedAtWholeSeconds ==
    /\ Len(timestamp_segments) = Len(GeneratedStarts)
    /\ \A k \in 1..Len(GeneratedStarts) :
           LET whole == (GeneratedStarts[k] \div 10) * 10
           IN  timestamp_segments[k].start =
                   IF whole > LeadIn THEN whole - LeadIn ELSE whole

\* C30 as stated: a generated transcript has at least 5 blocks, each is
\* parsed at floor(t), and the plan returned for it is not empty.
\* (analyze_audio_patterns ends its loop at the end of the audio track: a
\* track of 2 s gives one block, one of 13.2 s four: this is violated.)
C30_FiveBlocksParsed ==
    (Done /\ Generated /\ duration.isNumber) =>
        /\ Len(GeneratedStarts) >= 5
        /\ ParsedAtWholeSeconds
        /\ Plan # <<>>

\* C30 as amended: a generated transcript has at least one block, every
\* block is parsed at floor(t), and the plan returned for it is not empty:
\* it holds an anchor for each of the first min(3, n) blocks of the ranking.
C30_GeneratedBlocksParsed ==
    (Done /\ Generated /\ duration.isNumber) =>
        /\ Len(GeneratedStarts) >= 1
        /\ ParsedAtWholeSeconds
        /\ Len(Plan) >= Min(MaxAnchors, Len(GeneratedStarts))

\* C30's case: a transcript generated from an audio track, of fewer than 5
\* blocks, one of which starts between two whole seconds, and the plan has a
\* clip for each block.
C30_Witness ==
    /\ Done
    /\ Generated
    /\ duration.isNumber
    /\ Len(GeneratedStarts) < 5
    /\ \E k \in 1..Len(GeneratedStarts) : GeneratedStarts[k] % 10 # 0
    /\ Len(Plan) >= Len(GeneratedStarts)

====
